---- MODULE Spec2Model ----
(***************************************************************************)
(* A model of the chained hash table of chain-hash.c / chain-hash.h.       *)
(*                                                                         *)
(* A value is a pointer (1..MaxPtr, NULL is 0) to an int; the table is     *)
(* driven with the hash and match functions of the file's own harness      *)
(* (hash_func, match_func), which read that int.  A chain is the sequence  *)
(* of the pointers it stores, head first; a chain element is its position  *)
(* in the sequence and NULL is no element.                                 *)
(***************************************************************************)
EXTENDS Integers, Sequences, FiniteSets, TLC

\* Bounds of the model.
MaxBuckets == 3
MaxPtr == 4

NULL == 0

Ptrs == 1..MaxPtr

\* The int each data pointer points to.  Pointers 1 and 4 hold equal ints
\* (two distinct values that match), pointer 3 holds a negative one.
Deref(p) ==
  CASE p = 1 -> 1
    [] p = 2 -> 4
    [] p = 3 -> -3
    [] p = 4 -> 1
    [] OTHER -> p + 3

hash_func(data) == Deref(data)

match_func(data1, data2) == Deref(data1) = Deref(data2)

\* 2^32 modulo n, computed without leaving the 32 bit range.
Pow32Mod(n) == ((65536 % n) * (65536 % n)) % n

\* h % n in C for an int h and an unsigned int n: h is converted to
\* unsigned (h + 2^32 when negative) before the remainder is taken.
UnsignedRem(h, n) ==
  IF h >= 0 THEN h % n ELSE ((h % n) + Pow32Mod(n)) % n

VARIABLES
  pc,        \* "start", "live" (chash_init returned a table), "failed"
             \* (chash_init returned NULL), "fault" (the process died)
  buckets,   \* tbl->buckets
  size,      \* tbl->size
  destroy,   \* whether tbl->destroy is a function (TRUE) or NULL
  table,     \* tbl->table: bucket index -> chain
  cap,       \* number of slots the bucket array was allocated with
  written,   \* the slot indexes chash_init stored a chain pointer to
  heap,      \* the live allocations
  allocFail, \* which allocation of chash_init failed, "none" if none did
  visited,   \* the values the last chash_traverse handed to its callback
  released,  \* the values handed to the destroy function, in call order
  drained,   \* the values the drain loop has got from chash_remove
  order,     \* the stored values in the order their inserts stored them
  inserted,  \* the caller's view: values whose insert returned 0 and that
             \* no remove has handed back since
  last       \* the last call: its arguments, its results, the state before

vars ==
  <<pc, buckets, size, destroy, table, cap, written, heap, allocFail,
    visited, released, drained, order, inserted, last>>

----------------------------------------------------------------------------
\* The chain library (linkedlist.h), as the table uses it.

list_head(l) == IF Len(l) = 0 THEN NULL ELSE 1

list_tail(l) == Len(l)

list_next(l, elmt) == IF elmt < Len(l) THEN elmt + 1 ELSE NULL

list_data(l, elmt) == l[elmt]

list_size(l) == Len(l)

\* The calls list_traverse makes to its callback: one per element, head
\* first.
list_traverse(l) == l

\* The calls list_destroy makes to the destroy function the chain was
\* created with: one per element, head first, none when it is NULL.
list_destroy(l, destroyFn) == IF destroyFn THEN l ELSE <<>>

\* Inserts data after elmt (at the head when elmt is NULL): 0 and the new
\* chain, or -1 and the chain as it was when the node cannot be allocated
\* (ok is whether the allocator has memory).
list_insnxt(l, elmt, data, ok) ==
  IF ok
  THEN [ret |-> 0,
        list |-> SubSeq(l, 1, elmt) \o <<data>> \o SubSeq(l, elmt + 1, Len(l))]
  ELSE [ret |-> -1, list |-> l]

\* Removes the element after elmt (the head when elmt is NULL): 0, the new
\* chain and the removed data, or -1 when there is no such element (old is
\* what the caller's data pointer held).
list_remnxt(l, elmt, old) ==
  IF elmt < Len(l)
  THEN [ret |-> 0,
        list |-> SubSeq(l, 1, elmt) \o SubSeq(l, elmt + 2, Len(l)),
        data |-> l[elmt + 1]]
  ELSE [ret |-> -1, list |-> l, data |-> old]

----------------------------------------------------------------------------
\* Helpers over the whole table.

RECURSIVE TraverseFrom(_, _)
TraverseFrom(tab, i) ==
  IF i >= buckets THEN <<>>
  ELSE list_traverse(tab[i]) \o TraverseFrom(tab, i + 1)

\* chash_traverse with a loop that starts at bucket 1.
chash_traverse_SkipFirst(tab) == TraverseFrom(tab, 1)

\* The values chash_traverse hands to its callback, in order.
chash_traverse(tab) == TraverseFrom(tab, 0)

Range(s) == {s[k] : k \in 1..Len(s)}

Stored(tab) == UNION {Range(tab[i]) : i \in DOMAIN tab}

----------------------------------------------------------------------------
\* The operations.  Each is an operator from the current state and the
\* call's arguments to the call's results; the actions below apply them.

\* The bucket index insert, remove and lookup compute for data.
BucketOf(data) == UnsignedRem(hash_func(data), buckets)

\* The index reduced as a signed value, without the conversion to unsigned.
InsertBucket_Signed(data) == hash_func(data) % buckets

\* int bucket of chash_insert, chash_remove and chash_lookup.
InsertBucket(data) == BucketOf(data)

RemoveBucket(data) == BucketOf(data)

LookupBucket(data) == BucketOf(data)

\* The scan of chash_lookup from elmt on: the first element whose data
\* matches, NULL when the chain ends first.
RECURSIVE LookupScan(_, _, _)
LookupScan(l, data, elmt) ==
  IF elmt = NULL THEN NULL
  ELSE IF match_func(data, list_data(l, elmt)) THEN elmt
  ELSE LookupScan(l, data, list_next(l, elmt))

\* chash_lookup(tbl, &data): the set of its possible outcomes.  ret is the
\* value returned, out what *data holds afterwards, returned is FALSE when
\* the call faults instead of returning.  With *data NULL and bucket 0
\* empty the code reads the data field of a NULL element: the read faults,
\* or yields whatever lies at that address.
chash_lookup(tab, data) ==
  IF data # NULL
  THEN LET bucket == LookupBucket(data)
           elmt == LookupScan(tab[bucket], data, list_head(tab[bucket]))
       IN  IF elmt # NULL
           THEN {[ret |-> 1, out |-> list_data(tab[bucket], elmt),
                  returned |-> TRUE]}
           ELSE {[ret |-> 0, out |-> data, returned |-> TRUE]}
  ELSE IF list_head(tab[0]) # NULL
       THEN {[ret |-> 1, out |-> list_data(tab[0], list_head(tab[0])),
              returned |-> TRUE]}
       ELSE {[ret |-> 1, out |-> g, returned |-> TRUE] : g \in Ptrs \cup {NULL}}
            \cup {[ret |-> 0, out |-> NULL, returned |-> FALSE]}

\* chash_insert without its lookup: a value is appended whether or not a
\* matching one is stored.
chash_insert_NoLookup(data, appendOk) ==
  IF data = NULL
  THEN [ret |-> -1, table |-> table, size |-> size]
  ELSE LET bucket == InsertBucket(data)
           tmplist == table[bucket]
           ins == list_insnxt(tmplist, list_tail(tmplist), data, appendOk)
       IN  [ret |-> 0,
            table |-> [table EXCEPT ![bucket] = ins.list],
            size |-> IF ins.ret = 0 THEN size + 1 ELSE size]

\* chash_insert counting the value whatever list_insnxt returns.
chash_insert_CountAlways(data, appendOk) ==
  IF data = NULL
  THEN [ret |-> -1, table |-> table, size |-> size]
  ELSE IF (CHOOSE r \in chash_lookup(table, data) : TRUE).ret # 0
  THEN [ret |-> 1, table |-> table, size |-> size]
  ELSE LET bucket == InsertBucket(data)
           tmplist == table[bucket]
           ins == list_insnxt(tmplist, list_tail(tmplist), data, appendOk)
       IN  [ret |-> 0,
            table |-> [table EXCEPT ![bucket] = ins.list],
            size |-> size + 1]

\* chash_insert looking the value up before it checks it for NULL.
chash_insert_LookupFirst(data, appendOk) ==
  IF (CHOOSE r \in chash_lookup(table, data) : r.returned).ret # 0
  THEN [ret |-> 1, table |-> table, size |-> size]
  ELSE IF data = NULL
  THEN [ret |-> -1, table |-> table, size |-> size]
  ELSE LET bucket == InsertBucket(data)
           tmplist == table[bucket]
           ins == list_insnxt(tmplist, list_tail(tmplist), data, appendOk)
       IN  [ret |-> 0,
            table |-> [table EXCEPT ![bucket] = ins.list],
            size |-> IF ins.ret = 0 THEN size + 1 ELSE size]

\* chash_insert(tbl, data); appendOk is whether list_insnxt can allocate.
chash_insert(data, appendOk) ==
  IF data = NULL
  THEN [ret |-> -1, table |-> table, size |-> size]
  ELSE IF (CHOOSE r \in chash_lookup(table, data) : TRUE).ret # 0
  THEN [ret |-> 1, table |-> table, size |-> size]
  ELSE LET bucket == InsertBucket(data) IN
       IF <<"list", bucket>> \notin heap
       THEN [ret |-> -1, table |-> table, size |-> size]
       ELSE LET tmplist == table[bucket]
                ins == list_insnxt(tmplist, list_tail(tmplist), data, appendOk)
            IN  [ret |-> 0,
                 table |-> [table EXCEPT ![bucket] = ins.list],
                 size |-> IF ins.ret = 0 THEN size + 1 ELSE size]

\* The scan of targeted chash_remove from elmt on, prev the element before
\* it: whether an element matches, and the element before the first match.
RECURSIVE RemoveScan(_, _, _, _)
RemoveScan(l, data, elmt, prev) ==
  IF elmt = NULL THEN [found |-> FALSE, prev |-> prev]
  ELSE IF match_func(data, list_data(l, elmt))
  THEN [found |-> TRUE, prev |-> prev]
  ELSE RemoveScan(l, data, list_next(l, elmt), elmt)

\* Targeted chash_remove handing list_remnxt the matching element instead
\* of the one before it.
RemoveTargeted_AfterMatch(data) ==
  LET bucket == RemoveBucket(data)
      scan == RemoveScan(table[bucket], data, list_head(table[bucket]), NULL)
      rem == list_remnxt(table[bucket], scan.prev + 1, data)
  IN  IF scan.found
      THEN [ret |-> 0, out |-> rem.data,
            table |-> [table EXCEPT ![bucket] = rem.list],
            size |-> size - 1, returned |-> TRUE]
      ELSE [ret |-> -1, out |-> data, table |-> table, size |-> size,
            returned |-> TRUE]

\* Targeted chash_remove whose miss falls through to the success path.
RemoveTargeted_MissCounts(data) ==
  LET bucket == RemoveBucket(data)
      scan == RemoveScan(table[bucket], data, list_head(table[bucket]), NULL)
      rem == list_remnxt(table[bucket], scan.prev, data)
  IN  IF scan.found
      THEN [ret |-> 0, out |-> rem.data,
            table |-> [table EXCEPT ![bucket] = rem.list],
            size |-> size - 1, returned |-> TRUE]
      ELSE [ret |-> 0, out |-> data, table |-> table, size |-> size - 1,
            returned |-> TRUE]

\* Targeted chash_remove (*data not NULL), past the size check.
RemoveTargeted(data) ==
  LET bucket == RemoveBucket(data)
      scan == RemoveScan(table[bucket], data, list_head(table[bucket]), NULL)
      rem == list_remnxt(table[bucket], scan.prev, data)
  IN  IF scan.found
      THEN [ret |-> 0, out |-> rem.data,
            table |-> [table EXCEPT ![bucket] = rem.list],
            size |-> size - 1, returned |-> TRUE]
      ELSE [ret |-> -1, out |-> data, table |-> table, size |-> size,
            returned |-> TRUE]

\* The bucket scan of arbitrary chash_remove: the first index from i on
\* whose chain is not empty, buckets when there is none.
RECURSIVE FirstNonEmpty(_)
FirstNonEmpty(i) ==
  IF i < buckets /\ ~(list_size(table[i]) > 0) THEN FirstNonEmpty(i + 1) ELSE i

\* Arbitrary chash_remove taking the head of bucket 0 without a scan, as
\* arbitrary chash_lookup does.
RemoveArbitrary_Bucket0 ==
  LET rem == list_remnxt(table[0], NULL, NULL)
  IN  [ret |-> 0, out |-> rem.data,
       table |-> [table EXCEPT ![0] = rem.list],
       size |-> size - 1, returned |-> TRUE]

\* Arbitrary chash_remove (*data NULL), past the size check.  A scan that
\* ends at buckets reads a slot past the bucket array.
RemoveArbitrary ==
  LET i == FirstNonEmpty(0) IN
  IF i < buckets
  THEN LET rem == list_remnxt(table[i], NULL, NULL)
       IN  [ret |-> 0, out |-> rem.data,
            table |-> [table EXCEPT ![i] = rem.list],
            size |-> size - 1, returned |-> TRUE]
  ELSE [ret |-> 0, out |-> NULL, table |-> table, size |-> size,
        returned |-> FALSE]

\* chash_remove without the check for an empty table.
chash_remove_NoEmptyCheck(data) ==
  IF data # NULL THEN RemoveTargeted(data) ELSE RemoveArbitrary

\* chash_remove(tbl, &data).
chash_remove(data) ==
  IF size = 0
  THEN [ret |-> -1, out |-> data, table |-> table, size |-> size,
        returned |-> TRUE]
  ELSE IF data # NULL THEN RemoveTargeted(data) ELSE RemoveArbitrary

\* chash_isempty off by one.
chash_isempty_OffByOne(sz) == sz <= 1

\* chash_isempty(Table), given Table->size.
chash_isempty(sz) == sz = 0

\* The loop of chash_destroy from bucket i on: the calls made to the destroy
\* function.
RECURSIVE DestroyFrom(_)
DestroyFrom(i) ==
  IF i >= buckets THEN <<>>
  ELSE list_destroy(table[i], destroy) \o DestroyFrom(i + 1)

\* chash_destroy with a loop that starts at bucket 1.
chash_destroy_SkipFirst ==
  [released |-> DestroyFrom(1),
   heap |-> (heap \ {<<"list", i>> : i \in 1..(buckets - 1)}) \ {<<"tbl", 0>>}]

\* chash_destroy(tbl): the calls made to the destroy function and the
\* allocations still live afterwards (each list_destroy frees its chain,
\* free(tbl) the table record).
chash_destroy ==
  [released |-> DestroyFrom(0),
   heap |-> (heap \ {<<"list", i>> : i \in 0..(buckets - 1)}) \ {<<"tbl", 0>>}]

----------------------------------------------------------------------------
\* The state machine.

\* The insertion record without value v.
Forget(ord, v) == SelectSeq(ord, LAMBDA x : x # v)

NoCall ==
  [op |-> "none", arg |-> NULL, ret |-> 0, out |-> NULL, returned |-> TRUE,
   ok |-> TRUE, size0 |-> 0, table0 |-> <<>>]

Init ==
  /\ pc = "start"
  /\ buckets = 0
  /\ size = 0
  /\ destroy = FALSE
  /\ table = <<>>
  /\ cap = 0
  /\ written = {}
  /\ heap = {}
  /\ allocFail = "none"
  /\ visited = <<>>
  /\ released = <<>>
  /\ drained = <<>>
  /\ order = <<>>
  /\ inserted = {}
  /\ last = NoCall

\* The number of slots chash_init asks calloc for.
ArraySlots(sz) == sz - 1

\* chash_init(sz, hash_func, match_func, destroyFn).  fail names the
\* allocation that fails ("list": the k-th list_create), oobFault whether a
\* store outside the bucket array faults or lands in writable memory.
ChashInit(sz, destroyFn, fail, k, oobFault) ==
  /\ pc = "start"
  /\ allocFail' = fail
  /\ inserted' = {}
  /\ UNCHANGED <<visited, released, drained, order>>
  /\ LET stores == IF fail = "list" THEN 0..k ELSE 0..(sz - 1)
         lists == IF fail = "list" THEN 0..(k - 1) ELSE 0..(sz - 1)
         oob == \E i \in stores : i >= ArraySlots(sz)
     IN
     IF fail = "tbl"
     THEN /\ pc' = "failed"
          /\ UNCHANGED <<buckets, size, destroy, table, cap, written, heap>>
          /\ last' = [NoCall EXCEPT !.op = "init", !.arg = sz, !.ok = FALSE]
     ELSE /\ buckets' = sz
          /\ destroy' = destroyFn
          /\ size' = 0
          /\ IF fail = "array"
             THEN \* table is NULL and the first store goes through it
                  /\ pc' = "fault"
                  /\ cap' = 0
                  /\ written' = {}
                  /\ table' = <<>>
                  /\ heap' = {<<"tbl", 0>>, <<"list", 0>>}
                  /\ last' = [NoCall EXCEPT !.op = "init", !.arg = sz,
                                            !.ok = FALSE, !.returned = FALSE]
             ELSE /\ cap' = ArraySlots(sz)
                  /\ written' = stores
                  /\ table' = [i \in 0..(sz - 1) |-> <<>>]
                  /\ heap' = {<<"tbl", 0>>, <<"array", 0>>}
                               \cup {<<"list", i>> : i \in lists}
                  /\ pc' = IF oob /\ oobFault THEN "fault"
                           ELSE IF fail = "list" THEN "failed" ELSE "live"
                  /\ last' = [NoCall EXCEPT !.op = "init", !.arg = sz,
                                            !.ok = (fail = "none"),
                                            !.returned = ~(oob /\ oobFault)]

\* last.ok is FALSE when the call reached list_insnxt and it failed.
ChashInsert(data, appendOk) ==
  /\ pc = "live"
  /\ LET r == chash_insert(data, appendOk) IN
     /\ table' = r.table
     /\ size' = r.size
     /\ inserted' = IF r.ret = 0 THEN inserted \cup {data} ELSE inserted
     /\ order' = IF r.table # table THEN Append(order, data) ELSE order
     /\ last' = [op |-> "insert", arg |-> data, ret |-> r.ret, out |-> data,
                 returned |-> TRUE, ok |-> (appendOk \/ r.ret # 0),
                 size0 |-> size, table0 |-> table]
  /\ visited' = <<>>
  /\ drained' = <<>>
  /\ UNCHANGED <<pc, buckets, destroy, cap, written, heap, allocFail, released>>

ChashRemove(data) ==
  /\ pc = "live"
  /\ LET r == chash_remove(data) IN
     /\ table' = r.table
     /\ size' = r.size
     /\ pc' = IF r.returned THEN "live" ELSE "fault"
     /\ inserted' = IF r.returned /\ r.ret = 0 THEN inserted \ {r.out}
                    ELSE inserted
     /\ order' = IF r.table # table THEN Forget(order, r.out) ELSE order
     /\ last' = [op |-> "remove", arg |-> data, ret |-> r.ret, out |-> r.out,
                 returned |-> r.returned, ok |-> TRUE,
                 size0 |-> size, table0 |-> table]
  /\ visited' = <<>>
  /\ drained' = <<>>
  /\ UNCHANGED <<buckets, destroy, cap, written, heap, allocFail, released>>

\* chash_lookup moving the element it finds to the head of its chain.
ChashLookup_MoveToFront(data) ==
  /\ pc = "live"
  /\ \E r \in chash_lookup(table, data) :
       /\ pc' = IF r.returned THEN "live" ELSE "fault"
       /\ table' = IF data # NULL /\ r.ret = 1
                   THEN [table EXCEPT ![LookupBucket(data)] =
                           <<r.out>> \o SelectSeq(@, LAMBDA x : x # r.out)]
                   ELSE table
       /\ last' = [op |-> "lookup", arg |-> data, ret |-> r.ret, out |-> r.out,
                   returned |-> r.returned, ok |-> TRUE,
                   size0 |-> size, table0 |-> table]
  /\ visited' = <<>>
  /\ drained' = <<>>
  /\ UNCHANGED <<buckets, size, destroy, cap, written, heap, allocFail,
                 released, order, inserted>>

ChashLookup(data) ==
  /\ pc = "live"
  /\ \E r \in chash_lookup(table, data) :
       /\ pc' = IF r.returned THEN "live" ELSE "fault"
       /\ last' = [op |-> "lookup", arg |-> data, ret |-> r.ret, out |-> r.out,
                   returned |-> r.returned, ok |-> TRUE,
                   size0 |-> size, table0 |-> table]
  /\ visited' = <<>>
  /\ drained' = <<>>
  /\ UNCHANGED <<buckets, size, destroy, table, cap, written, heap, allocFail,
                 released, order, inserted>>

\* chash_traverse(tbl, callback), with a callback that leaves the table
\* alone.
ChashTraverse ==
  /\ pc = "live"
  /\ visited' = chash_traverse(table)
  /\ drained' = <<>>
  /\ last' = [NoCall EXCEPT !.op = "traverse", !.size0 = size,
                            !.table0 = table]
  /\ UNCHANGED <<pc, buckets, size, destroy, table, cap, written, heap,
                 allocFail, released, order, inserted>>

\* chash_destroy(tbl): no table is left afterwards.
ChashDestroy ==
  /\ pc = "live"
  /\ pc' = "destroyed"
  /\ released' = chash_destroy.released
  /\ heap' = chash_destroy.heap
  /\ table' = <<>>
  /\ size' = 0
  /\ visited' = <<>>
  /\ drained' = <<>>
  /\ last' = [NoCall EXCEPT !.op = "destroy", !.size0 = size,
                            !.table0 = table]
  /\ order' = <<>>
  /\ UNCHANGED <<buckets, destroy, cap, written, allocFail, inserted>>

\* The drain loop of main: while (!chash_isempty(hash)) chash_remove with
\* *data NULL.  DrainStart enters the loop, DrainStep is one pass through
\* its body, DrainEnd leaves it.
DrainStart ==
  /\ pc = "live"
  /\ pc' = "drain"
  /\ drained' = <<>>
  /\ visited' = <<>>
  /\ last' = [NoCall EXCEPT !.op = "drain", !.size0 = size, !.table0 = table]
  /\ UNCHANGED <<buckets, size, destroy, table, cap, written, heap, allocFail,
                 released, order, inserted>>

DrainStep ==
  /\ pc = "drain"
  /\ ~chash_isempty(size)
  /\ LET r == chash_remove(NULL) IN
     /\ table' = r.table
     /\ size' = r.size
     /\ pc' = IF r.returned /\ ~(r.ret < 0) THEN "drain" ELSE "fault"
     /\ drained' = IF r.returned /\ r.ret = 0 THEN Append(drained, r.out)
                   ELSE drained
     /\ inserted' = IF r.returned /\ r.ret = 0 THEN inserted \ {r.out}
                    ELSE inserted
     /\ order' = IF r.table # table THEN Forget(order, r.out) ELSE order
  /\ UNCHANGED <<buckets, destroy, cap, written, heap, allocFail, visited,
                 released, last>>

DrainEnd ==
  /\ pc = "drain"
  /\ chash_isempty(size)
  /\ pc' = "drained"
  /\ UNCHANGED <<buckets, size, destroy, table, cap, written, heap, allocFail,
                 visited, released, drained, order, inserted, last>>

\* After the loop main goes on with the table.
DrainResume ==
  /\ pc = "drained"
  /\ pc' = "live"
  /\ UNCHANGED <<buckets, size, destroy, table, cap, written, heap, allocFail,
                 visited, released, drained, order, inserted, last>>

Next ==
  \/ \E sz \in 1..MaxBuckets, destroyFn \in BOOLEAN,
        fail \in {"none", "tbl", "array", "list"}, oobFault \in BOOLEAN :
       \E k \in 0..(sz - 1) : ChashInit(sz, destroyFn, fail, k, oobFault)
  \/ \E data \in Ptrs \cup {NULL}, appendOk \in BOOLEAN :
       ChashInsert(data, appendOk)
  \/ \E data \in Ptrs \cup {NULL} : ChashRemove(data)
  \/ \E data \in Ptrs \cup {NULL} : ChashLookup(data)
  \/ ChashTraverse
  \/ ChashDestroy
  \/ DrainStart
  \/ DrainStep
  \/ DrainEnd
  \/ DrainResume

Spec == Init /\ [][Next]_vars

\* The drain loop is sequential code: once entered, its next pass or its
\* exit is taken.
FairSpec == Spec /\ WF_vars(DrainStep) /\ WF_vars(DrainEnd)

----------------------------------------------------------------------------
\* The properties.

\* No two elements stored at distinct places of tab match.
NoTwoMatch(tab) ==
  \A i, j \in DOMAIN tab :
    \A m \in 1..Len(tab[i]), n \in 1..Len(tab[j]) :
      (i # j \/ m # n) => ~match_func(tab[i][m], tab[j][n])

RECURSIVE SumLen(_, _)
SumLen(tab, i) == IF i >= buckets THEN 0 ELSE Len(tab[i]) + SumLen(tab, i + 1)

\* Whether some element of chain l matches data.
InChain(l, data) == \E k \in 1..Len(l) : match_func(data, l[k])

\* The position of the first element of l that matches data.
FirstMatch(l, data) ==
  CHOOSE k \in 1..Len(l) :
    /\ match_func(data, l[k])
    /\ \A h \in 1..(k - 1) : ~match_func(data, l[h])

\* Chain l without its k-th element.
Without(l, k) == SubSeq(l, 1, k - 1) \o SubSeq(l, k + 1, Len(l))

\* C1. Uniqueness: no two distinct stored elements match, and an insert of a
\* value matching a stored element returns 1 and changes neither size nor
\* any chain.
C1_Uniqueness ==
  pc = "live" =>
    /\ NoTwoMatch(table)
    /\ (/\ last.op = "insert"
        /\ last.arg # NULL
        /\ \E e \in Stored(last.table0) : match_func(last.arg, e))
       => (last.ret = 1 /\ table = last.table0 /\ size = last.size0)

\* A duplicate was refused: the argument matches a stored element and is
\* not itself stored.
C1_Witness ==
  /\ pc = "live"
  /\ last.op = "insert"
  /\ last.ret = 1
  /\ size >= 2
  /\ last.arg \notin Stored(table)
  /\ \E e \in Stored(table) : match_func(last.arg, e)

\* C2. Size invariant: size equals the sum of the lengths of the chains,
\* which is the number of values a full traversal visits.
C2_SizeInvariant ==
  pc = "live" =>
    /\ size = SumLen(table, 0)
    /\ size = Len(chash_traverse(table))

\* An insert whose append failed left a table of two values as it was.
C2_Witness ==
  /\ pc = "live"
  /\ last.op = "insert"
  /\ ~last.ok
  /\ last.ret = 0
  /\ size = 2
  /\ last.arg \notin Stored(table)

\* C3. Round trip: a targeted lookup returns 1 and yields the stored element
\* exactly when a matching value has been inserted with success (insert
\* returned 0) and not been removed since, and returns 0 otherwise.
C3_RoundTrip ==
  (pc = "live" /\ last.op = "lookup" /\ last.arg # NULL) =>
    LET held == {g \in inserted : match_func(g, last.arg)} IN
    IF held # {}
    THEN last.ret = 1 /\ last.out \in held
    ELSE last.ret = 0

\* C4. Empty-table rejection: with size 0, chash_remove returns -1 in both
\* modes and touches neither a bucket, size nor *data.
C4_EmptyRejection ==
  (last.op = "remove" /\ last.size0 = 0) =>
    /\ last.returned
    /\ last.ret = -1
    /\ table = last.table0
    /\ size = 0
    /\ last.out = last.arg

\* An arbitrary removal was refused on a table emptied by removals.
C4_Witness ==
  /\ last.op = "remove"
  /\ last.size0 = 0
  /\ last.arg = NULL
  /\ last.ret = -1
  /\ inserted = {}
  /\ pc = "live"

\* C5. Insert append failure: when list_insnxt fails for a value that is not
\* a duplicate, chash_insert returns -1 and leaves size unchanged; it returns
\* 0 only when the value was stored.
C5_AppendFailure ==
  (last.op = "insert" /\ last.arg # NULL) =>
    /\ (~last.ok /\ ~(\E e \in Stored(last.table0) : match_func(last.arg, e)))
       => (last.ret = -1 /\ size = last.size0)
    /\ last.ret = 0 => last.arg \in Stored(table)

\* C6. Arbitrary lookup: with *data NULL, chash_lookup returns 1 and the head
\* of bucket 0 when bucket 0 is not empty, and otherwise returns 0 with no
\* element, whatever the other buckets hold.
C6_ArbitraryLookup ==
  (last.op = "lookup" /\ last.arg = NULL) =>
    /\ last.returned
    /\ IF Len(last.table0[0]) > 0
       THEN last.ret = 1 /\ last.out = last.table0[0][1]
       ELSE last.ret = 0 /\ last.out = NULL

\* C7. Construction shape: after a successful chash_init the bucket array
\* has exactly bucket_count slots, every index written lies inside it and
\* holds a fresh empty chain, and size is 0.
C7_ConstructionShape ==
  (last.op = "init" /\ pc = "live") =>
    /\ buckets = last.arg
    /\ cap = buckets
    /\ written = 0..(buckets - 1)
    /\ \A i \in written :
         i < cap /\ <<"list", i>> \in heap /\ table[i] = <<>>
    /\ size = 0

\* C8. Construction failure: chash_init returns NULL, without going through
\* a failed allocation, whenever the table record, the bucket array or a
\* chain cannot be allocated.
C8_ConstructionFailure ==
  (last.op = "init" /\ allocFail # "none") =>
    (pc = "failed" /\ last.returned)

\* C9. Targeted removal effect: a remove of a value matching a stored
\* element removes the first matching node of its bucket, hands back that
\* stored element, decrements size by 1 and leaves every other element
\* where it was, in the same order.
C9_TargetedRemoval ==
  (/\ last.op = "remove"
   /\ last.arg # NULL
   /\ \E e \in Stored(last.table0) : match_func(last.arg, e)) =>
    LET b == BucketOf(last.arg)
        l == last.table0[b]
    IN  /\ InChain(l, last.arg)
        /\ last.returned
        /\ last.ret = 0
        /\ last.out = l[FirstMatch(l, last.arg)]
        /\ size = last.size0 - 1
        /\ table = [last.table0 EXCEPT ![b] = Without(l, FirstMatch(l, last.arg))]

\* The middle node of a chain of three was removed, through a query value
\* that is not the stored one.
C9_Witness ==
  /\ last.op = "remove"
  /\ last.ret = 0
  /\ last.arg # NULL
  /\ last.out # last.arg
  /\ \E b \in DOMAIN last.table0 :
       /\ Len(last.table0[b]) = 3
       /\ last.table0[b][2] = last.out
       /\ table[b] = <<last.table0[b][1], last.table0[b][3]>>

\* C10. Targeted removal miss: with size > 0 and no element of the value's
\* bucket matching it, chash_remove returns -1 and leaves size, every chain
\* and *data unchanged.
C10_TargetedMiss ==
  (/\ last.op = "remove"
   /\ last.arg # NULL
   /\ last.size0 > 0
   /\ ~InChain(last.table0[BucketOf(last.arg)], last.arg)) =>
    /\ last.returned
    /\ last.ret = -1
    /\ size = last.size0
    /\ table = last.table0
    /\ last.out = last.arg

\* A miss after the scan of a whole chain of two.
C10_Witness ==
  /\ last.op = "remove"
  /\ last.arg # NULL
  /\ last.ret = -1
  /\ last.size0 > 0
  /\ Len(last.table0[BucketOf(last.arg)]) = 2

\* The number of times v occurs in sequence q.
Count(q, v) == Cardinality({k \in 1..Len(q) : q[k] = v})

\* The position of v in sequence q.
PosIn(q, v) == CHOOSE k \in 1..Len(q) : q[k] = v

\* The lowest index of a chain of tab that is not empty.
LowestNonEmpty(tab) ==
  CHOOSE i \in DOMAIN tab :
    tab[i] # <<>> /\ \A j \in DOMAIN tab : j < i => tab[j] = <<>>

\* C11. Arbitrary removal: with size > 0 and *data NULL, chash_remove
\* removes and returns the head of the lowest-indexed chain that is not
\* empty, decrements size by 1 and leaves all other elements in place.
C11_ArbitraryRemoval ==
  (last.op = "remove" /\ last.arg = NULL /\ last.size0 > 0) =>
    /\ \E i \in DOMAIN last.table0 : last.table0[i] # <<>>
    /\ LET i == LowestNonEmpty(last.table0) IN
       /\ last.returned
       /\ last.ret = 0
       /\ last.out = Head(last.table0[i])
       /\ size = last.size0 - 1
       /\ table = [last.table0 EXCEPT ![i] = Tail(last.table0[i])]

\* The head of a chain of two in bucket 1 was taken, bucket 0 being empty.
C11_Witness ==
  /\ last.op = "remove"
  /\ last.arg = NULL
  /\ last.ret = 0
  /\ buckets >= 2
  /\ last.table0[0] = <<>>
  /\ Len(last.table0[1]) = 2
  /\ last.out = last.table0[1][1]
  /\ table[1] = <<last.table0[1][2]>>

\* C12. Destructor accounting: chash_destroy on a table with a destroy
\* function hands it each value stored at that time exactly once and no
\* other value; inserts and removes never call it; with no destroy function
\* nothing is released.
C12_DestructorAccounting ==
  /\ pc \in {"live", "drain", "drained"} => released = <<>>
  /\ pc = "destroyed" =>
       IF destroy
       THEN \A p \in Ptrs :
              Count(released, p) = IF p \in Stored(last.table0) THEN 1 ELSE 0
       ELSE released = <<>>

\* A table holding two values in two buckets was destroyed after a removal
\* had emptied the caller's view of a third.
C12_Witness ==
  /\ pc = "destroyed"
  /\ destroy
  /\ Len(released) = 2
  /\ last.table0[0] # <<>>
  /\ Cardinality(inserted) = 2

\* C13. Destroy releases everything: after chash_destroy no allocation of
\* chash_init (table record, bucket array, chains) is live.
C13_DestroyReleasesAll ==
  pc = "destroyed" => heap = {}

\* C14. Traversal order: chash_traverse calls the callback exactly once for
\* each stored value and for nothing else, buckets in increasing index
\* order and, within a bucket, values in the order they were inserted.
C14_TraversalOrder ==
  (pc = "live" /\ last.op = "traverse") =>
    /\ \A p \in Ptrs :
         Count(visited, p) = IF p \in Stored(table) THEN 1 ELSE 0
    /\ Len(visited) = size
    /\ \A a, b \in 1..Len(visited) :
         a < b =>
           LET ba == CHOOSE i \in DOMAIN table : visited[a] \in Range(table[i])
               bb == CHOOSE i \in DOMAIN table : visited[b] \in Range(table[i])
           IN  /\ ba <= bb
               /\ ba = bb => PosIn(order, visited[a]) < PosIn(order, visited[b])

\* Three values in two buckets were visited, and not in the order of their
\* insertion: the first one inserted sits in the higher bucket.
C14_Witness ==
  /\ pc = "live"
  /\ last.op = "traverse"
  /\ Len(visited) = 3
  /\ table[0] # <<>>
  /\ visited # order

\* C15. Null insert: chash_insert of NULL returns -1 and leaves size and
\* every chain unchanged.
C15_NullInsert ==
  (last.op = "insert" /\ last.arg = NULL) =>
    (last.ret = -1 /\ size = last.size0 /\ table = last.table0)

\* NULL was refused by a table whose bucket 0 holds a value.
C15_Witness ==
  /\ last.op = "insert"
  /\ last.arg = NULL
  /\ last.ret = -1
  /\ table[0] # <<>>

\* C16. Lookup is read-only: chash_lookup, targeted or arbitrary, finding or
\* not, leaves size, the bucket count and every chain as they were.
C16_LookupReadOnly ==
  last.op = "lookup" =>
    /\ table = last.table0
    /\ size = last.size0
    /\ DOMAIN last.table0 = 0..(buckets - 1)

\* A targeted lookup found the second element of a chain.
C16_Witness ==
  /\ last.op = "lookup"
  /\ last.arg # NULL
  /\ last.ret = 1
  /\ \E b \in DOMAIN table : Len(table[b]) >= 2 /\ table[b][2] = last.out

\* C17. Bucket placement: every stored value sits in the chain at index
\* hash mod bucket_count, the hash taken as unsigned; insert, lookup and
\* remove compute the same index for a value, and the index lies in
\* 0..bucket_count-1 for every int hash, negative ones included.
C17_BucketPlacement ==
  pc \in {"live", "drain", "drained"} =>
    /\ \A b \in DOMAIN table : \A k \in 1..Len(table[b]) :
         UnsignedRem(hash_func(table[b][k]), buckets) = b
    /\ \A v \in Ptrs :
         /\ InsertBucket(v) = LookupBucket(v)
         /\ LookupBucket(v) = RemoveBucket(v)
         /\ InsertBucket(v) \in 0..(buckets - 1)
    /\ \A h \in {-2147483647 - 1, -2147483647, -3, -2, -1, 0, 1, 2147483647} :
         UnsignedRem(h, buckets) \in 0..(buckets - 1)

\* The value with the negative hash -3 is stored in bucket 1 of 3, where
\* the signed remainder would be 0.
C17_Witness ==
  /\ pc = "live"
  /\ buckets = 3
  /\ \E k \in 1..Len(table[1]) : hash_func(table[1][k]) < 0

\* C18. Insert effect: a chash_insert that returns 0 has appended the value
\* at the tail of its bucket, incremented size by 1 and left the bucket's
\* other elements and every other bucket as they were.
C18_InsertEffect ==
  (last.op = "insert" /\ last.ret = 0) =>
    LET b == UnsignedRem(hash_func(last.arg), buckets) IN
    /\ table = [last.table0 EXCEPT ![b] = Append(last.table0[b], last.arg)]
    /\ size = last.size0 + 1

\* C19. Drain terminates: the loop that removes in arbitrary mode while the
\* table is not empty ends, after exactly as many removals as the table held
\* values, having got each stored value exactly once, with size 0 and every
\* chain empty.
C19_DrainTerminates ==
  /\ [](pc = "drain" => <>(pc = "drained"))
  /\ [](pc = "drain" => Len(drained) + size = last.size0)
  /\ [](pc = "drained" =>
          /\ size = 0
          /\ \A i \in DOMAIN table : table[i] = <<>>
          /\ Len(drained) = last.size0
          /\ \A p \in Ptrs :
               Count(drained, p) = IF p \in Stored(last.table0) THEN 1 ELSE 0)

\* A table of three values in two buckets was drained.
C19_Witness ==
  /\ pc = "drained"
  /\ Len(drained) = 3
  /\ buckets >= 2
  /\ last.table0[0] # <<>>
  /\ last.table0[1] # <<>>

\* C20. Arbitrary removal stays in bounds: with size > 0 some chain is not
\* empty, so the scan of arbitrary chash_remove stops below bucket_count,
\* at a slot inside the bucket array, and size is never decremented below 0.
C20_ArbitraryInBounds ==
  /\ (pc \in {"live", "drain"} /\ size > 0) =>
       \E i \in DOMAIN table : table[i] # <<>>
  /\ size >= 0
  /\ (last.op = "remove" /\ last.arg = NULL /\ last.size0 > 0) =>
       /\ last.returned
       /\ \E i \in DOMAIN last.table0 : last.table0[i] # <<>>
       /\ LowestNonEmpty(last.table0) < buckets
       /\ LowestNonEmpty(last.table0) < cap

====
